---- MODULE Spec2Model ----
(***************************************************************************)
(* A model of aiida-gaussian-datatypes:                                    *)
(*   - pseudopotential/data.py: Pseudopotential.get, .store, ._validate    *)
(*     and .from_cp2k (the ingestion with its duplicate policies);         *)
(*   - basisset/utils.py: write_cp2k_basisset, cp2k_basisset_file_iter and *)
(*     parse_single_cp2k_basisset.                                         *)
(***************************************************************************)
EXTENDS Integers, Sequences, FiniteSets, Bags, TLC

VARIABLES
    db,     \* the stored Pseudopotential nodes: a bag (rows of the database)
    db0,    \* db when the running or last call started
    pc,     \* "idle", or "returned" once a call's outcome is with the caller
    call,   \* the call: its name and arguments
    out,    \* its outcome: exception raised (exc) and value returned
    held,   \* what the caller holds: the nodes from_cp2k returned that it has
            \* yet to store, the record it wrote to the handle
    proc,   \* concurrent callers: each one's position and local node
    inserts,    \* concurrent callers: the inserts made, each with what its lookup saw
    file,   \* a basis set file: its lines
    gen     \* cp2k_basisset_file_iter: its position, locals and what it yielded

racevars == <<proc, inserts>>

textvars == <<file, gen>>

vars == <<db, db0, pc, call, out, held, proc, inserts, file, gen>>

Unused == "unused"

(***************************************************************************)
(* Small helpers.                                                          *)
(***************************************************************************)
Range(s) == {s[i] : i \in DOMAIN s}

Max(S) == CHOOSE m \in S : \A n \in S : n <= m

RECURSIVE SeqsUpTo(_, _)
\* every sequence over S of length at most n
SeqsUpTo(S, n) ==
    IF n = 0 THEN {<<>>}
    ELSE LET shorter == SeqsUpTo(S, n - 1)
         IN  shorter \cup {Append(s, x) : s \in {t \in shorter : Len(t) = n - 1}, x \in S}

(***************************************************************************)
(* Bounds and input domains of the pseudopotential part.                   *)
(***************************************************************************)
MaxStore == 2       \* stored nodes
MaxEntries == 2     \* entries of an ingested file
MaxVersion == 2     \* highest version a node is constructed or stored with
NProj == 2          \* projectors of a non-local channel

Elements == {"H", "O"}

\* the identifiers of an entry's header line, after the element
IdentifierLists == {<<"PBE">>, <<"PBE", "PBE-q1">>}

Latest == 0     \* version="latest"
NoName == ""    \* name=None: a false name

Zeros(n) == [i \in 1..n |-> 0]

Triangle(n) == (n * (n + 1)) \div 2

\* one non-local channel: nproj and its packed coefficients (values abstracted)
Channels == {[nproj |-> NProj, coeffs |-> Zeros(k)] :
                k \in (Triangle(NProj) - 1)..(Triangle(NProj) + 1)}

GoodChannel == [nproj |-> NProj, coeffs |-> Zeros(Triangle(NProj))]

\* non_local lists: one channel of any shape, or a good channel then a bad one
NonLocals == {<<c>> : c \in Channels}
                \cup {<<GoodChannel, c>> : c \in Channels \ {GoodChannel}}

(***************************************************************************)
(* Pseudopotential.__init__: the node built from keyword arguments.        *)
(***************************************************************************)
Pseudopotential(kw) ==
    [element   |-> kw.element,
     name      |-> kw.name,
     aliases   |-> IF "aliases" \in DOMAIN kw THEN kw.aliases ELSE <<>>,
     non_local |-> IF "non_local" \in DOMAIN kw THEN kw.non_local ELSE <<>>,
     version   |-> IF "version" \in DOMAIN kw THEN kw.version ELSE 1]

(***************************************************************************)
(* Pseudopotential.get                                                     *)
(***************************************************************************)
\* the filters of the query (lines 245-256)
get_filters(p, element, name, version, match_aliases) ==
    /\ p.element = element
    /\ (version # Latest => p.version = version)
    /\ (name # NoName =>
            IF match_aliases THEN name \in Range(p.aliases) ELSE p.name = name)

\* the sort without reverse=True: the lowest version comes first
first_by_version_ascending(items) ==
    CHOOSE p \in items : \A q \in items : p.version <= q.version

\* items[0] of sorted(..., key=version, reverse=True)
first_by_version(items) == CHOOSE p \in items : \A q \in items : q.version <= p.version

get(element, name, version, match_aliases) ==
    LET items == {p \in BagToSet(db) :
                    get_filters(p, element, name, version, match_aliases)}
    IN  IF items = {} THEN [exc |-> "NotExistent"]
        ELSE IF Cardinality({p.name : p \in items}) > 1
             THEN [exc |-> "MultipleObjectsError"]
             ELSE [exc |-> "", node |-> first_by_version(items)]

(***************************************************************************)
(* Pseudopotential._validate: the non-local shape check.                   *)
(***************************************************************************)
expected_coeffs(nproj) == (nproj * (nproj + 1)) \div 2

\* the loop leaves after its first channel
_validate_first_channel(node) ==
    \A i \in DOMAIN node.non_local :
        i = 1 => Len(node.non_local[i].coeffs) = expected_coeffs(node.non_local[i].nproj)

_validate(node) ==
    \A i \in DOMAIN node.non_local :
        Len(node.non_local[i].coeffs) = expected_coeffs(node.non_local[i].nproj)

(***************************************************************************)
(* Pseudopotential.store: the uniqueness lookup, then the base class's     *)
(* store, which validates the node and inserts it.                         *)
(***************************************************************************)
\* the lookup without version=self.version: any version of the pair counts
store_lookup_any_version(node) == get(node.element, node.name, Latest, FALSE)

\* the lookup of the version after the node's
store_lookup_next_version(node) == get(node.element, node.name, node.version + 1, FALSE)

store_lookup(node) == get(node.element, node.name, node.version, FALSE)

store_outcome(node) ==
    LET existing == store_lookup(node)
    IN  IF existing.exc = "" THEN [exc |-> "UniquenessError"]
        ELSE IF existing.exc # "NotExistent" THEN [exc |-> existing.exc]
        ELSE IF ~_validate(node) THEN [exc |-> "ValidationError"]
        ELSE [exc |-> ""]

(***************************************************************************)
(* The pseudopotential file reader (pseudopotential/utils.py), which       *)
(* from_cp2k calls: an entry is its header (element, identifiers) and its  *)
(* non-local channels; an entry whose channel does not hold                *)
(* nproj*(nproj+1)/2 coefficients is rejected (InvalidProjectorShape).     *)
(***************************************************************************)
RECURSIVE insert_by_length(_, _)
\* x placed after every identifier at least as long: a stable descending sort
insert_by_length(sorted, x) ==
    IF sorted = <<>> THEN <<x>>
    ELSE IF Len(Head(sorted)) >= Len(x)
         THEN <<Head(sorted)>> \o insert_by_length(Tail(sorted), x)
         ELSE <<x>> \o sorted

RECURSIVE sort_identifiers(_)
\* identifiers.sort(key=lambda i: -len(i))
sort_identifiers(identifiers) ==
    IF identifiers = <<>> THEN <<>>
    ELSE insert_by_length(
            sort_identifiers(SubSeq(identifiers, 1, Len(identifiers) - 1)),
            identifiers[Len(identifiers)])

parse_single_cp2k_pseudo(entry) ==
    LET identifiers == sort_identifiers(entry.identifiers)
        shaped == \A i \in DOMAIN entry.non_local :
                    Len(entry.non_local[i].coeffs)
                        = Triangle(entry.non_local[i].nproj)
    IN  IF ~shaped THEN [exc |-> "InvalidProjectorShape"]
        ELSE [exc |-> "",
              pseudo |-> [element   |-> entry.element,
                          name      |-> Head(identifiers),
                          aliases   |-> identifiers,
                          non_local |-> entry.non_local]]

RECURSIVE cp2k_pseudo_file_iter(_, _)
\* the parsed entries in file order; ignore_invalid skips a rejected entry
cp2k_pseudo_file_iter(fhandle, ignore_invalid) ==
    IF fhandle = <<>> THEN [exc |-> "", pseudos |-> <<>>]
    ELSE LET first == parse_single_cp2k_pseudo(Head(fhandle))
             rest == cp2k_pseudo_file_iter(Tail(fhandle), ignore_invalid)
         IN  IF first.exc # "" /\ ~ignore_invalid THEN [exc |-> first.exc]
             ELSE IF rest.exc # "" THEN rest
             ELSE IF first.exc # "" THEN rest
             ELSE [exc |-> "", pseudos |-> <<first.pseudo>> \o rest.pseudos]

(***************************************************************************)
(* Pseudopotential.from_cp2k                                               *)
(***************************************************************************)
\* filters: field -> the set of values its predicate accepts
matches_criteria(pseudo, filters) ==
    \A field \in DOMAIN filters : pseudo[field] \in filters[field]

\* the lookup without match_aliases=False: get's default matches aliases
lookup_match_aliases(pseudo) == get(pseudo.element, pseudo.name, Latest, TRUE)

\* cls.get(pseudo["element"], pseudo["name"], match_aliases=False)
lookup(pseudo) == get(pseudo.element, pseudo.name, Latest, FALSE)

\* exists looking for version 1 only
exists_version_1(pseudo) == get(pseudo.element, pseudo.name, 1, FALSE).exc # "NotExistent"

\* exists(pseudo): NotExistent is caught, anything else propagates
exists(pseudo) == lookup(pseudo).exc # "NotExistent"

\* pseudo["version"] = latest.version + 1
next_version(pseudo) == ("version" :> lookup(pseudo).node.version + 1) @@ pseudo

Raised(exc, pseudos, who) ==
    [exc |-> exc, pseudos |-> pseudos, returned |-> <<>>, who |-> who]

Returned(pseudos, kept) ==
    [exc |-> "", pseudos |-> pseudos,
     returned |-> [i \in DOMAIN kept |-> Pseudopotential(kept[i])], who |-> <<>>]

from_cp2k(fhandle, filters, duplicate_handling, ignore_invalid) ==
    LET parsed == cp2k_pseudo_file_iter(fhandle, ignore_invalid)
    IN  IF parsed.exc # "" THEN Raised(parsed.exc, <<>>, <<>>)
        ELSE
        LET pseudos == SelectSeq(parsed.pseudos, LAMBDA p : matches_criteria(p, filters))
            \* the candidates whose lookup raises something else than NotExistent
            failing == {i \in DOMAIN pseudos :
                            lookup(pseudos[i]).exc \notin {"", "NotExistent"}}
            found == {i \in DOMAIN pseudos : lookup(pseudos[i]).exc = ""}
            stops == IF duplicate_handling = "error" THEN failing \cup found ELSE failing
            stop == CHOOSE i \in stops : \A j \in stops : i <= j
        IN  IF duplicate_handling \notin {"ignore", "error", "new"}
            THEN Raised("ValueError", pseudos, <<>>)
            ELSE IF stops # {}
            THEN IF stop \in found
                 THEN Raised("UniquenessError", pseudos,
                             <<pseudos[stop].element, pseudos[stop].name>>)
                 ELSE Raised(lookup(pseudos[stop]).exc, pseudos, <<>>)
            ELSE IF duplicate_handling = "ignore"
            THEN Returned(pseudos, SelectSeq(pseudos, LAMBDA p : ~exists(p)))
            ELSE IF duplicate_handling = "error"
            THEN Returned(pseudos, pseudos)
            ELSE Returned(pseudos,
                    [i \in DOMAIN pseudos |->
                        IF i \in found THEN next_version(pseudos[i]) ELSE pseudos[i]])

(***************************************************************************)
(* The sequential program: one caller, one call at a time.                 *)
(***************************************************************************)
Names == {sort_identifiers(ids)[1] : ids \in IdentifierLists}

\* the entries a file is made of: every header with a well-shaped channel,
\* and one header with every shape
FileEntries ==
    {[element |-> e, identifiers |-> ids, non_local |-> <<GoodChannel>>] :
        e \in Elements, ids \in IdentifierLists}
    \cup {[element |-> "H", identifiers |-> <<"PBE">>, non_local |-> <<c>>] :
        c \in Channels}

Files == SeqsUpTo(FileEntries, MaxEntries)

FilterSets == {<<>>, [element |-> {"H"}]}

Policies == {"ignore", "error", "new", "replace"}

\* the nodes a caller constructs
Nodes ==
    {Pseudopotential([element |-> e, name |-> sort_identifiers(ids)[1],
                      aliases |-> sort_identifiers(ids), non_local |-> nl,
                      version |-> v]) :
        e \in Elements, ids \in IdentifierLists, nl \in NonLocals, v \in 1..MaxVersion}

NoCall == [op |-> "none"]

Init ==
    /\ db = EmptyBag
    /\ db0 = EmptyBag
    /\ pc = "idle"
    /\ call = NoCall
    /\ out = NoCall
    /\ held = <<>>
    /\ proc = Unused
    /\ inserts = Unused
    /\ file = Unused
    /\ gen = Unused

Call_from_cp2k ==
    /\ pc = "idle"
    /\ held = <<>>
    /\ \E fhandle \in Files, filters \in FilterSets,
          duplicate_handling \in Policies, ignore_invalid \in BOOLEAN :
            /\ call' = [op |-> "from_cp2k", fhandle |-> fhandle, filters |-> filters,
                        duplicate_handling |-> duplicate_handling,
                        ignore_invalid |-> ignore_invalid]
            /\ out' = from_cp2k(fhandle, filters, duplicate_handling, ignore_invalid)
    /\ pc' = "returned"
    /\ db0' = db
    /\ UNCHANGED <<db, held, racevars, textvars>>

\* node.store(), of a node just constructed or of the next one from_cp2k returned
Call_store ==
    /\ pc = "idle"
    /\ \E node \in (IF held = <<>> THEN Nodes ELSE {Head(held)}) :
        LET outcome == store_outcome(node)
        IN  /\ node.version <= MaxVersion
            /\ outcome.exc = "" => BagCardinality(db) < MaxStore
            /\ call' = [op |-> "store", node |-> node]
            /\ out' = outcome
            /\ db' = IF outcome.exc = "" THEN db (+) SetToBag({node}) ELSE db
    /\ held' = IF held = <<>> THEN held ELSE Tail(held)
    /\ pc' = "returned"
    /\ db0' = db
    /\ UNCHANGED <<racevars, textvars>>

\* the caller does not store the next node from_cp2k returned
Drop ==
    /\ pc = "idle"
    /\ held # <<>>
    /\ held' = Tail(held)
    /\ UNCHANGED <<db, db0, pc, call, out, racevars, textvars>>

Call_get ==
    /\ pc = "idle"
    /\ held = <<>>
    /\ \E element \in Elements, name \in Names \cup {NoName},
          version \in {Latest} \cup 1..MaxVersion, match_aliases \in BOOLEAN :
            /\ call' = [op |-> "get", element |-> element, name |-> name,
                        version |-> version, match_aliases |-> match_aliases]
            /\ out' = get(element, name, version, match_aliases)
    /\ pc' = "returned"
    /\ db0' = db
    /\ UNCHANGED <<db, held, racevars, textvars>>

\* the caller takes the outcome; what from_cp2k returned is now its to store
Return ==
    /\ pc = "returned"
    /\ pc' = "idle"
    /\ held' = IF call.op = "from_cp2k" THEN out.returned ELSE held
    /\ call' = NoCall
    /\ out' = NoCall
    /\ UNCHANGED <<db, db0, racevars, textvars>>

\* tests/conftest.py: the database is cleared between tests
clear_database ==
    /\ pc = "idle"
    /\ held = <<>>
    /\ db # EmptyBag
    /\ db' = EmptyBag
    /\ UNCHANGED <<db0, pc, call, out, held, racevars, textvars>>

Next ==
    \/ Call_from_cp2k
    \/ Call_store
    \/ Drop
    \/ Call_get
    \/ Return
    \/ clear_database

Spec == Init /\ [][Next]_vars

(***************************************************************************)
(* Claims on the sequential program.                                       *)
(***************************************************************************)
\* the stored nodes with exactly this candidate's element and name
StoredFor(c) == {p \in BagToSet(db) : p.element = c.element /\ p.name = c.name}

SameTriple(p, q) ==
    p.element = q.element /\ p.name = q.name /\ p.version = q.version

WellShaped(p) ==
    \A i \in DOMAIN p.non_local :
        2 * Len(p.non_local[i].coeffs) = p.non_local[i].nproj * (p.non_local[i].nproj + 1)

Ingested(policy) ==
    /\ pc = "returned"
    /\ call.op = "from_cp2k"
    /\ call.duplicate_handling = policy
    /\ out.exc # "InvalidProjectorShape"

\* the node a candidate becomes, with this version
AsNode(c, v) ==
    [element |-> c.element, name |-> c.name, aliases |-> c.aliases,
     non_local |-> c.non_local, version |-> v]

\* C1: under policy `new` from_cp2k returns every filtered candidate, in order;
\* one whose (element, name) is stored (exact name) has the highest stored
\* version of that pair plus 1, every other one has version 1.
C1_NewVersions ==
    Ingested("new") =>
        /\ out.exc = ""
        /\ Len(out.returned) = Len(out.pseudos)
        /\ \A i \in DOMAIN out.pseudos :
            LET c == out.pseudos[i]
                stored == StoredFor(c)
            IN  out.returned[i] =
                    AsNode(c, IF stored # {}
                              THEN Max({p.version : p \in stored}) + 1
                              ELSE 1)

\* C1 witness: the store holds versions 1 and 2 of a pair; a candidate of that
\* pair is returned with version 3, and a candidate whose name is only an alias
\* of the stored nodes is returned with version 1.
C1_Witness ==
    /\ Ingested("new")
    /\ \E i, j \in DOMAIN out.returned :
        /\ out.returned[i].version = 3
        /\ {p.version : p \in StoredFor(out.returned[i])} = {1, 2}
        /\ out.returned[j].version = 1
        /\ StoredFor(out.returned[j]) = {}
        /\ \E p \in BagToSet(db) :
            /\ p.element = out.returned[j].element
            /\ out.returned[j].name \in Range(p.aliases)

\* C2: under policy `ignore` from_cp2k raises nothing and returns exactly the
\* filtered candidates whose (element, name) is not stored, in input order.
C2_IgnoreDrops ==
    Ingested("ignore") =>
        /\ out.exc = ""
        /\ LET kept == SelectSeq(out.pseudos, LAMBDA c : StoredFor(c) = {})
           IN  out.returned = [i \in DOMAIN kept |-> AsNode(kept[i], 1)]

\* C2 witness: a candidate stored only at version 2 is dropped, the candidate
\* after it is returned.
C2_Witness ==
    /\ Ingested("ignore")
    /\ Len(out.pseudos) = 2
    /\ {p.version : p \in StoredFor(out.pseudos[1])} = {2}
    /\ Len(out.returned) = 1
    /\ out.returned[1].name = out.pseudos[2].name
    /\ out.returned[1].element = out.pseudos[2].element

\* C3: under policy `error`, if a filtered candidate's (element, name) is stored
\* the call raises UniquenessError naming the first such candidate, returns
\* nothing and leaves the store as it was; otherwise it returns every candidate.
C3_ErrorPolicy ==
    Ingested("error") =>
        LET colliding == {i \in DOMAIN out.pseudos : StoredFor(out.pseudos[i]) # {}}
        IN  /\ db = db0
            /\ IF colliding # {}
               THEN LET first == out.pseudos[CHOOSE i \in colliding :
                                                \A j \in colliding : i <= j]
                    IN  /\ out.exc = "UniquenessError"
                        /\ out.who = <<first.element, first.name>>
                        /\ out.returned = <<>>
               ELSE /\ out.exc = ""
                    /\ out.returned =
                        [i \in DOMAIN out.pseudos |-> AsNode(out.pseudos[i], 1)]

\* C3 witness: the first candidate does not collide, the second does, and the
\* call raised.
C3_Witness ==
    /\ Ingested("error")
    /\ Len(out.pseudos) = 2
    /\ StoredFor(out.pseudos[1]) = {}
    /\ StoredFor(out.pseudos[2]) # {}
    /\ out.exc = "UniquenessError"
    /\ out.returned = <<>>
    /\ db # EmptyBag

C7_ProjectorShape ==
    /\ \A p \in BagToSet(db) : WellShaped(p)
    /\ \A i \in DOMAIN held : WellShaped(held[i])
    /\ (pc = "returned" /\ call.op = "from_cp2k") =>
        /\ \A i \in DOMAIN out.returned : WellShaped(out.returned[i])
        /\ (~call.ignore_invalid
                /\ \E i \in DOMAIN call.fhandle : ~WellShaped(call.fhandle[i]))
            => out.exc = "InvalidProjectorShape" /\ out.returned = <<>>

\* C7 witness: a file whose second entry has NProj projectors and one
\* coefficient too many is rejected.
C7_Witness ==
    /\ pc = "returned"
    /\ call.op = "from_cp2k"
    /\ Len(call.fhandle) = 2
    /\ WellShaped(call.fhandle[1])
    /\ Len(call.fhandle[2].non_local[1].coeffs) = Triangle(NProj) + 1
    /\ out.exc = "InvalidProjectorShape"
    /\ db # EmptyBag

(***************************************************************************)
(* The concurrent program: two callers, each ingesting a one-entry file    *)
(* under policy `new` and storing the node it got.  from_cp2k's lookup is  *)
(* one query; store() is two steps, its lookup and the base class's        *)
(* insert, and steps of the two callers interleave.                        *)
(***************************************************************************)
MaxRaceStore == 3   \* nodes the concurrent callers store in all

Procs == {"a", "b"}

RaceEntries ==
    {[element |-> "H", identifiers |-> ids, non_local |-> <<GoodChannel>>] :
        ids \in IdentifierLists}

NoNode == [element |-> "", name |-> NoName, aliases |-> <<>>,
           non_local |-> <<>>, version |-> Latest]

Starting == [pc |-> "start", node |-> NoNode, base |-> EmptyBag, seen |-> EmptyBag]

\* callers holding a node they may still insert
Pending == {p \in Procs : proc[p].pc \in {"ingested", "checked"}}

RaceInit ==
    /\ db = EmptyBag
    /\ proc = [p \in Procs |-> Starting]
    /\ inserts = <<>>
    /\ db0 = Unused
    /\ pc = Unused
    /\ call = Unused
    /\ out = Unused
    /\ held = Unused
    /\ file = Unused
    /\ gen = Unused

\* from_cp2k(fhandle, duplicate_handling="new") of a one-entry file
proc_from_cp2k(p) ==
    /\ proc[p].pc = "start"
    /\ BagCardinality(db) + Cardinality(Pending) < MaxRaceStore
    /\ \E entry \in RaceEntries :
        LET outcome == from_cp2k(<<entry>>, <<>>, "new", FALSE)
        IN  proc' = [proc EXCEPT ![p] = [pc |-> "ingested",
                                         node |-> outcome.returned[1],
                                         base |-> db, seen |-> EmptyBag]]
    /\ UNCHANGED <<db, inserts, db0, pc, call, out, held, textvars>>

\* store(), lines 76-84: the uniqueness lookup; a node found raises
proc_store_lookup(p) ==
    /\ proc[p].pc = "ingested"
    /\ proc' = [proc EXCEPT ![p] =
                    IF store_lookup(proc[p].node).exc = "NotExistent"
                    THEN [@ EXCEPT !.pc = "checked", !.seen = db]
                    ELSE Starting]
    /\ UNCHANGED <<db, inserts, db0, pc, call, out, held, textvars>>

\* store(), line 86: the base class validates and inserts
proc_store_insert(p) ==
    /\ proc[p].pc = "checked"
    /\ db' = IF _validate(proc[p].node) THEN db (+) SetToBag({proc[p].node}) ELSE db
    /\ inserts' = IF _validate(proc[p].node)
                  THEN Append(inserts, [node |-> proc[p].node, seen |-> proc[p].seen])
                  ELSE inserts
    /\ proc' = [proc EXCEPT ![p] = Starting]
    /\ UNCHANGED <<db0, pc, call, out, held, textvars>>

RaceNext ==
    \E p \in Procs :
        \/ proc_from_cp2k(p)
        \/ proc_store_lookup(p)
        \/ proc_store_insert(p)

SpecRace == RaceInit /\ [][RaceNext]_vars

\* the versions of this node's (element, name) in a bag
VersionsIn(bag, node) ==
    {q.version : q \in {r \in BagToSet(bag) :
                            r.element = node.element /\ r.name = node.name}}

\* C10: a caller's `new`-policy node has the version after the highest one its
\* lookup saw (1 if none), so two callers that looked before either stored
\* hold the same version; and two inserted nodes share (element, name, version)
\* only if the later store()'s lookup ran before the earlier one's insert.
C10_RaceWindow ==
    /\ \A p \in Pending :
        proc[p].node.version =
            IF VersionsIn(proc[p].base, proc[p].node) = {} THEN 1
            ELSE Max(VersionsIn(proc[p].base, proc[p].node)) + 1
    /\ \A i, j \in DOMAIN inserts :
        (i < j /\ SameTriple(inserts[i].node, inserts[j].node)) =>
            ~BagIn(inserts[i].node, inserts[j].seen)

\* C10 witness: the store holds version 1 of a pair and two nodes of that pair
\* with version 2, stored by interleaved store() calls.
C10_Witness ==
    \E n \in BagToSet(db) :
        /\ n.version = 2
        /\ CopiesIn(n, db) = 2
        /\ VersionsIn(db, n) = {1, 2}
        /\ Len(inserts) = 3

(***************************************************************************)
(* Text.  A string is the sequence of its characters; a file is the        *)
(* sequence of its lines, each but possibly the last ending in a newline.  *)
(***************************************************************************)
Whitespace == {" ", "\n"}

DigitChars == <<"0", "1", "2", "3", "4", "5", "6", "7", "8", "9">>

Letters == {"A", "B", "C", "D", "E", "F", "G", "H", "I", "J", "K", "L", "M",
            "N", "O", "P", "Q", "R", "S", "T", "U", "V", "W", "X", "Y", "Z",
            "a", "b", "c", "d", "e", "f", "g", "h", "i", "j", "k", "l", "m",
            "n", "o", "p", "q", "r", "s", "t", "u", "v", "w", "x", "y", "z"}

IsDigit(c) == c \in Range(DigitChars)

DigitOf(c) == (CHOOSE i \in DOMAIN DigitChars : DigitChars[i] = c) - 1

RECURSIVE lstrip(_)
lstrip(s) == IF s # <<>> /\ Head(s) \in Whitespace THEN lstrip(Tail(s)) ELSE s

RECURSIVE rstrip(_)
rstrip(s) ==
    IF s # <<>> /\ s[Len(s)] \in Whitespace THEN rstrip(SubSeq(s, 1, Len(s) - 1)) ELSE s

\* str.strip()
strip(s) == rstrip(lstrip(s))

\* the index of the first character of s that is in set C, Len(s) + 1 if none
first_in(s, C) ==
    IF \E i \in DOMAIN s : s[i] \in C
    THEN CHOOSE i \in DOMAIN s : s[i] \in C /\ \A j \in 1..(i - 1) : s[j] \notin C
    ELSE Len(s) + 1

RECURSIVE split(_)
\* str.split(): the whitespace-separated tokens
split(s) ==
    IF lstrip(s) = <<>> THEN <<>>
    ELSE <<SubSeq(lstrip(s), 1, first_in(lstrip(s), Whitespace) - 1)>>
            \o split(SubSeq(lstrip(s), first_in(lstrip(s), Whitespace), Len(lstrip(s))))

RECURSIVE split_on(_, _)
\* str.split(sep)
split_on(s, sep) ==
    LET k == first_in(s, {sep})
    IN  IF k > Len(s) THEN <<s>>
        ELSE <<SubSeq(s, 1, k - 1)>> \o split_on(SubSeq(s, k + 1, Len(s)), sep)

RECURSIVE join(_, _)
\* sep.join(parts)
join(parts, sep) ==
    IF parts = <<>> THEN <<>>
    ELSE IF Len(parts) = 1 THEN parts[1]
    ELSE parts[1] \o sep \o join(Tail(parts), sep)

RECURSIVE digits_value(_)
digits_value(s) ==
    IF s = <<>> THEN 0
    ELSE 10 * digits_value(SubSeq(s, 1, Len(s) - 1)) + DigitOf(s[Len(s)])

\* a numeral without its sign
unsigned(t) == IF t # <<>> /\ t[1] \in {"+", "-"} THEN Tail(t) ELSE t

negative(t) == t # <<>> /\ t[1] = "-"

int_of(t) ==
    IF unsigned(t) = <<>> \/ \E i \in DOMAIN unsigned(t) : ~IsDigit(unsigned(t)[i])
    THEN [exc |-> "ValueError"]
    ELSE [exc |-> "",
          value |-> IF negative(t) THEN 0 - digits_value(unsigned(t))
                    ELSE digits_value(unsigned(t))]

\* int(s): surrounding whitespace, a sign, digits
to_int(s) == int_of(strip(s))

RECURSIVE nat_chars(_)
nat_chars(n) ==
    IF n < 10 THEN <<DigitChars[n + 1]>>
    ELSE nat_chars(n \div 10) \o <<DigitChars[(n % 10) + 1]>>

\* str(n)
int_chars(n) == IF n < 0 THEN <<"-">> \o nat_chars(0 - n) ELSE nat_chars(n)

(***************************************************************************)
(* Floats.  A value is a sign, an integer part and the digits after the    *)
(* point, without trailing zeros; zero has no sign (-0.0 == 0.0).  No      *)
(* value of the model lies half way between two 12-digit decimals.         *)
(***************************************************************************)
RECURSIVE drop_zeros(_)
drop_zeros(frac) ==
    IF frac # <<>> /\ frac[Len(frac)] = 0
    THEN drop_zeros(SubSeq(frac, 1, Len(frac) - 1)) ELSE frac

Float(neg, int, frac) ==
    [neg |-> neg /\ (int # 0 \/ drop_zeros(frac) # <<>>),
     int |-> int, frac |-> drop_zeros(frac)]

float_of(neg, whole, frac) ==
    IF \/ whole \o frac = <<>>
       \/ \E i \in DOMAIN whole : ~IsDigit(whole[i])
       \/ \E i \in DOMAIN frac : ~IsDigit(frac[i])
    THEN [exc |-> "ValueError"]
    ELSE [exc |-> "",
          value |-> Float(neg, digits_value(whole),
                          [i \in DOMAIN frac |-> DigitOf(frac[i])])]

float_at(t, point) ==
    float_of(negative(t), SubSeq(unsigned(t), 1, point - 1),
             SubSeq(unsigned(t), point + 1, Len(unsigned(t))))

\* float(s): a sign, digits, a point, digits (exponents, inf and nan are not
\* written by any file of the model)
to_float(s) == float_at(strip(s), first_in(unsigned(strip(s)), {"."}))

RECURSIVE round_up(_)
\* the digits plus one in the last place, and the carry out of the first
round_up(digits) ==
    IF digits = <<>> THEN [carry |-> 1, digits |-> <<>>]
    ELSE LET last == digits[Len(digits)]
             front == round_up(SubSeq(digits, 1, Len(digits) - 1))
         IN  IF last < 9
             THEN [carry |-> 0,
                   digits |-> Append(SubSeq(digits, 1, Len(digits) - 1), last + 1)]
             ELSE [carry |-> front.carry, digits |-> Append(front.digits, 0)]

\* format(value, ">[sign]#<width>.<precision>f")
format_f(value, fmt) ==
    LET kept == [i \in 1..fmt.precision |->
                    IF i <= Len(value.frac) THEN value.frac[i] ELSE 0]
        up == Len(value.frac) > fmt.precision /\ value.frac[fmt.precision + 1] >= 5
        rounded == IF up THEN round_up(kept) ELSE [carry |-> 0, digits |-> kept]
        sign == IF value.neg THEN <<"-">>
                ELSE IF fmt.sign = " " THEN <<" ">> ELSE <<>>
        body == sign \o nat_chars(value.int + rounded.carry) \o <<".">>
                    \o [i \in 1..fmt.precision |-> DigitChars[rounded.digits[i] + 1]]
    IN  [i \in 1..(fmt.width - Len(body)) |-> " "] \o body

\* fmts=("{:>#18.12f}", "{:> #14.12f}")
e_fmt == [width |-> 18, precision |-> 12, sign |-> "-"]

c_fmt == [width |-> 14, precision |-> 12, sign |-> " "]

(***************************************************************************)
(* write_cp2k_basisset: the lines written to the handle, and the exception *)
(* that ended the writing, if any.                                         *)
(***************************************************************************)
write_row(row) ==
    format_f(row[1], e_fmt) \o <<" ">>
        \o join([i \in 1..(Len(row) - 1) |-> format_f(row[i + 1], c_fmt)], <<" ">>)
        \o <<"\n">>

RECURSIVE write_rows(_)
write_rows(rows) ==
    IF rows = <<>> THEN [exc |-> "", lines |-> <<>>]
    ELSE IF Head(rows) = <<>> THEN [exc |-> "IndexError", lines |-> <<>>]
    ELSE LET rest == write_rows(Tail(rows))
         IN  [exc |-> rest.exc, lines |-> <<write_row(Head(rows))>> \o rest.lines]

write_block_header(block) ==
    join(<<int_chars(block.n), int_chars(block.l[1][1]),
           int_chars(block.l[Len(block.l)][1]), int_chars(Len(block.coefficients)),
           join([i \in DOMAIN block.l |-> int_chars(block.l[i][2])], <<" ">>)>>,
         <<" ">>) \o <<"\n">>

RECURSIVE write_blocks(_)
write_blocks(blocks) ==
    IF blocks = <<>> THEN [exc |-> "", lines |-> <<>>]
    ELSE IF Head(blocks).l = <<>> THEN [exc |-> "IndexError", lines |-> <<>>]
    ELSE LET rows == write_rows(Head(blocks).coefficients)
             rest == write_blocks(Tail(blocks))
             lines == <<write_block_header(Head(blocks))>> \o rows.lines
         IN  IF rows.exc # "" THEN [exc |-> rows.exc, lines |-> lines]
             ELSE [exc |-> rest.exc, lines |-> lines \o rest.lines]

write_cp2k_basisset(element, name, blocks) ==
    LET written == write_blocks(blocks)
    IN  [exc |-> written.exc,
         lines |-> <<element \o <<" ">> \o name \o <<"\n">>,
                     int_chars(Len(blocks)) \o <<"\n">>>> \o written.lines]

(***************************************************************************)
(* Reading: the two line patterns, the single-entry parser and the entry   *)
(* splitter.                                                               *)
(***************************************************************************)
\* ^(\s*|\s*#.*)$ : all whitespace, or a "#" after whitespace with no newline
\* but a final one behind it
EMPTY_LINE_MATCH(line) ==
    LET t == lstrip(line)
    IN  \/ t = <<>>
        \/ /\ t[1] = "#"
           /\ \A i \in 2..Len(t) : t[i] = "\n" => i = Len(t)

\* ^\s*(?P<element>[a-zA-Z]{1,3})\s+(?P<family>\S+).*\n : one to three
\* letters, whitespace, a non-blank character and a newline somewhere behind it
BLOCK_MATCH(line) ==
    LET t == lstrip(line)
        r == first_in(t, {t[i] : i \in DOMAIN t} \ Letters) - 1
        rest == lstrip(SubSeq(t, r + 1, Len(t)))
    IN  /\ r \in 1..3
        /\ r < Len(t)
        /\ t[r + 1] \in Whitespace
        /\ rest # <<>>
        /\ \E i \in 2..Len(rest) : rest[i] = "\n"

\* [float(c) for c in line.split()]
parse_row(tokens) ==
    IF \E i \in DOMAIN tokens : to_float(tokens[i]).exc # ""
    THEN [exc |-> "ValueError"]
    ELSE [exc |-> "", row |-> [i \in DOMAIN tokens |-> to_float(tokens[i]).value]]

collect_rows(row, rest) ==
    IF row.exc # "" THEN row
    ELSE IF rest.exc # "" THEN rest
    ELSE [exc |-> "", rows |-> <<row.row>> \o rest.rows]

RECURSIVE parse_rows(_, _, _)
\* [[float(c) for c in basis[nline + n].split()] for n in range(nexp)]
parse_rows(basis, nline, nexp) ==
    IF nexp <= 0 THEN [exc |-> "", rows |-> <<>>]
    ELSE IF nline > Len(basis) THEN [exc |-> "IndexError"]
    ELSE collect_rows(parse_row(split(basis[nline])),
                      parse_rows(basis, nline + 1, nexp - 1))

\* a pairing that counts the angular momenta from 0
zip_range_from_zero(qn_lmin, qn_lmax, ncoeffs) ==
    [i \in 1..Len(ncoeffs) |-> <<i - 1, ncoeffs[i]>>]

\* list(zip(range(qn_lmin, qn_lmax + 1), ncoeffs)): as long as the shorter
zip_range(qn_lmin, qn_lmax, ncoeffs) ==
    LET shells == IF qn_lmax < qn_lmin THEN 0 ELSE qn_lmax - qn_lmin + 1
        n == IF shells < Len(ncoeffs) THEN shells ELSE Len(ncoeffs)
    IN  [i \in 1..n |-> <<qn_lmin + i - 1, ncoeffs[i]>>]

\* [int(qn) for qn in basis[nline].split()]
parse_ints(tokens) ==
    IF \E i \in DOMAIN tokens : to_int(tokens[i]).exc # ""
    THEN [exc |-> "ValueError"]
    ELSE [exc |-> "", ints |-> [i \in DOMAIN tokens |-> to_int(tokens[i]).value]]

\* blocks.append({"n": ..., "l": ..., "coefficients": ...})
collect_blocks(ints, rows, rest) ==
    IF rows.exc # "" THEN rows
    ELSE IF rest.exc # "" THEN rest
    ELSE [exc |-> "",
          blocks |-> <<[n |-> ints[1],
                        l |-> zip_range(ints[2], ints[3], SubSeq(ints, 5, Len(ints))),
                        coefficients |-> rows.rows]>> \o rest.blocks]

RECURSIVE parse_blocks(_, _, _)
\* qn_n, qn_lmin, qn_lmax, nexp, *ncoeffs = header; the rows; the next block
parse_block(basis, nline, n_blocks, header) ==
    IF header.exc # "" THEN header
    ELSE IF Len(header.ints) < 4 THEN [exc |-> "ValueError"]
    ELSE collect_blocks(header.ints,
                        parse_rows(basis, nline + 1, header.ints[4]),
                        parse_blocks(basis, nline + 1 + header.ints[4], n_blocks - 1))

\* the loop over range(n_blocks), from line nline (counted from 1) on
parse_blocks(basis, nline, n_blocks) ==
    IF n_blocks <= 0 THEN [exc |-> "", blocks |-> <<>>]
    ELSE IF nline > Len(basis) THEN [exc |-> "IndexError"]
    ELSE parse_block(basis, nline, n_blocks, parse_ints(split(basis[nline])))

\* the record of an entry
basis_of(element, identifiers, blocks) ==
    IF blocks.exc # "" THEN blocks
    ELSE [exc |-> "",
          basis |-> [element |-> element,
                     name |-> identifiers[1],
                     tags |-> split_on(identifiers[1], "-"),
                     aliases |-> identifiers,
                     blocks |-> blocks.blocks]]

parse_entry(basis, identifiers, n_blocks) ==
    IF n_blocks.exc # "" THEN n_blocks
    ELSE basis_of(identifiers[1], sort_identifiers(Tail(identifiers)),
                  parse_blocks(basis, 3, n_blocks.value))

parse_single_cp2k_basisset(basis) ==
    IF Len(split(basis[1])) < 2 THEN [exc |-> "IndexError"]
    ELSE IF Len(basis) < 2 THEN [exc |-> "IndexError"]
    ELSE parse_entry(basis, split(basis[1]), to_int(basis[2]))

\* the generator before its first line
iter_start ==
    [pos |-> 0, current_basis |-> <<>>, status |-> "running", exc |-> "",
     yielded |-> <<>>]

yield(g, parsed) ==
    IF parsed.exc # "" THEN [g EXCEPT !.status = "raised", !.exc = parsed.exc]
    ELSE [g EXCEPT !.yielded = Append(@, [lines |-> g.current_basis,
                                          basis |-> parsed.basis]),
                   !.current_basis = <<>>]

\* yield parse_single_cp2k_basisset(current_basis); current_basis = []
iter_yield(g) == yield(g, parse_single_cp2k_basisset(g.current_basis))

\* current_basis.append(line.strip()), unless the generator has raised
append_line(g, line) ==
    IF g.status = "raised" THEN g
    ELSE [g EXCEPT !.pos = @ + 1, !.current_basis = Append(@, strip(line))]

\* a loop that never closes a group at a header line
iter_line_no_split(g, line) ==
    IF EMPTY_LINE_MATCH(line) THEN [g EXCEPT !.pos = @ + 1]
    ELSE append_line(g, line)

\* one turn of the loop over the lines
iter_line(g, line) ==
    IF EMPTY_LINE_MATCH(line) THEN [g EXCEPT !.pos = @ + 1]
    ELSE IF BLOCK_MATCH(line) /\ g.current_basis # <<>>
         THEN append_line(iter_yield(g), line)
         ELSE append_line(g, line)

\* the generator returns, unless it has raised
return(g) == IF g.status = "raised" THEN g ELSE [g EXCEPT !.status = "done"]

\* after the last line
iter_end(g) == IF g.current_basis # <<>> THEN return(iter_yield(g)) ELSE return(g)

RECURSIVE iter_run(_, _)
iter_run(g, lines) ==
    IF g.status # "running" THEN g
    ELSE IF g.pos = Len(lines) THEN iter_end(g)
    ELSE iter_run(iter_line(g, lines[g.pos + 1]), lines)

\* list(cp2k_basisset_file_iter(fhandle))
cp2k_basisset_file_iter(lines) == iter_run(iter_start, lines)

(***************************************************************************)
(* The basis-set program: a caller writes a record into a fresh handle or  *)
(* opens a text file, and reads the handle back.                           *)
(***************************************************************************)
MaxExp == 2

MaxBlocks == 2

Exact == <<Float(FALSE, 5, <<>>), Float(FALSE, 0, <<5>>), Float(TRUE, 0, <<2, 5>>)>>

\* 0.9999999999999, 1e-13 and -1e-13: one digit more than the formats keep
Long ==
    <<Float(FALSE, 0, [i \in 1..(e_fmt.precision + 1) |-> 9]),
      Float(FALSE, 0, [i \in 1..(c_fmt.precision + 1) |->
                          IF i > c_fmt.precision THEN 1 ELSE 0]),
      Float(TRUE, 0, [i \in 1..(c_fmt.precision + 1) |->
                          IF i > c_fmt.precision THEN 1 ELSE 0])>>

BlockShapes ==
    {[n |-> 1, l |-> << <<0, 1>> >>],
     [n |-> 2, l |-> << <<0, 1>>, <<1, 1>> >>],
     [n |-> 3, l |-> << <<1, 2>> >>]}

RECURSIVE total_shells(_)
total_shells(l) == IF l = <<>> THEN 0 ELSE Head(l)[2] + total_shells(Tail(l))

Rows(l) == {SubSeq(row, 1, 1 + total_shells(l)) : row \in {Exact, Long}}

ValidBlocks ==
    UNION {{[n |-> shape.n, l |-> shape.l, coefficients |-> rows] :
                rows \in SeqsUpTo(Rows(shape.l), MaxExp)} : shape \in BlockShapes}

\* blocks without shells, and blocks with a row without fields
InvalidBlocks ==
    {[n |-> 1, l |-> <<>>, coefficients |-> rows] :
        rows \in {<<>>, <<SubSeq(Exact, 1, 2)>>}}
    \cup {[n |-> 1, l |-> << <<0, 1>> >>, coefficients |-> rows] :
        rows \in {<< <<>> >>, <<SubSeq(Exact, 1, 2), <<>> >>}}

LeadBlock == [n |-> 1, l |-> << <<0, 1>> >>, coefficients |-> <<SubSeq(Exact, 1, 2)>>]

BlockLists ==
    {<<>>} \cup {[i \in 1..k |-> LeadBlock] \o <<b>> :
                    k \in 0..(MaxBlocks - 1), b \in ValidBlocks \cup InvalidBlocks}

BasisNames ==
    {[element |-> <<"H">>, name |-> <<"A">>, tags |-> << <<"A">> >>],
     [element |-> <<"H", "e">>, name |-> <<"A", "-", "q", "1">>,
      tags |-> << <<"A">>, <<"q", "1">> >>]}

BasisSets ==
    {[element |-> id.element, name |-> id.name, tags |-> id.tags,
      aliases |-> <<id.name>>, blocks |-> blocks] :
        id \in BasisNames, blocks \in BlockLists}

\* a line of a hand-written file
text_line(tokens) == join(tokens, <<" ">>) \o <<"\n">>

RawBlockHeaders ==
    {text_line([i \in DOMAIN ints |-> int_chars(ints[i])]) :
        ints \in {<<1, 0, 0, 1, 1>>, <<1, 0, 1, 1, 1>>, <<1, 0, 0, 1, 1, 2>>,
                  <<1, 0, 0, 1>>, <<1, 0, 0>>, <<1, 0, 0, 2, 1>>}}
    \cup {text_line(<<<<"1">>, <<"0">>, <<"x">>, <<"1">>, <<"1">>>>)}

RawRows ==
    {<<" ">> \o text_line(<<<<"5", ".", "0">>, <<"0", ".", "5">>>>),
     <<" ">> \o text_line(<<<<"5", ".", "0">>, <<"x">>>>)}

RawFiles ==
    {<<text_line(<<<<"H">>, <<"A">>>>), text_line(<<<<"1">>>>), header, row>> :
        header \in RawBlockHeaders, row \in RawRows}

BasisInit ==
    /\ file = <<>>
    /\ pc = "idle"
    /\ call = NoCall
    /\ out = NoCall
    /\ held = <<>>
    /\ db = Unused
    /\ db0 = Unused
    /\ proc = Unused
    /\ inserts = Unused
    /\ gen = Unused

\* the caller opens a text file
open ==
    /\ pc = "idle"
    /\ file = <<>>
    /\ \E raw \in RawFiles : file' = raw
    /\ UNCHANGED <<pc, call, out, held, db, db0, proc, inserts, gen>>

\* write_cp2k_basisset(fhandle, element, name, blocks) on a new, empty handle
Call_write_cp2k_basisset ==
    /\ pc = "idle"
    /\ file = <<>>
    /\ \E B \in BasisSets :
        LET written == write_cp2k_basisset(B.element, B.name, B.blocks)
        IN  /\ file' = written.lines
            /\ out' = [exc |-> written.exc]
            /\ call' = [op |-> "write_cp2k_basisset"]
            /\ held' = <<B>>
    /\ pc' = "returned"
    /\ UNCHANGED <<db, db0, proc, inserts, gen>>

\* list(cp2k_basisset_file_iter(fhandle))
Call_cp2k_basisset_file_iter ==
    /\ pc = "idle"
    /\ file # <<>>
    /\ out' = cp2k_basisset_file_iter(file)
    /\ call' = [op |-> "cp2k_basisset_file_iter"]
    /\ pc' = "returned"
    /\ UNCHANGED <<file, held, db, db0, proc, inserts, gen>>

\* the caller takes the result
BasisReturn ==
    /\ pc = "returned"
    /\ pc' = "idle"
    /\ call' = NoCall
    /\ out' = NoCall
    /\ UNCHANGED <<file, held, db, db0, proc, inserts, gen>>

\* the caller is done with the handle and the record
close ==
    /\ pc = "idle"
    /\ file # <<>>
    /\ file' = <<>>
    /\ held' = <<>>
    /\ UNCHANGED <<pc, call, out, db, db0, proc, inserts, gen>>

BasisNext ==
    \/ open
    \/ Call_write_cp2k_basisset
    \/ Call_cp2k_basisset_file_iter
    \/ BasisReturn
    \/ close

SpecBasis == BasisInit /\ [][BasisNext]_vars

(***************************************************************************)
(* Claims about the basis-set writer and parser.                           *)
(***************************************************************************)
\* a valid record: every block has a non-empty l list, contiguous from lmin
\* to lmax, and rows of 1 + total_shells fields; the only alias is the name
ValidBasisSet(B) ==
    /\ B.aliases = <<B.name>>
    /\ \A b \in DOMAIN B.blocks :
        LET block == B.blocks[b]
        IN  /\ block.l # <<>>
            /\ \A i \in DOMAIN block.l : block.l[i][1] = block.l[1][1] + i - 1
            /\ \A r \in DOMAIN block.coefficients :
                Len(block.coefficients[r]) = 1 + total_shells(block.l)

\* the handle holding the text written for a valid record has been read back
ReadBack ==
    /\ pc = "returned"
    /\ call.op = "cp2k_basisset_file_iter"
    /\ held # <<>>
    /\ ValidBasisSet(held[1])

Coefficients(B) ==
    UNION {UNION {Range(B.blocks[b].coefficients[r]) :
                    r \in DOMAIN B.blocks[b].coefficients} : b \in DOMAIN B.blocks}

\* C6 as stated: parsing the text written for a valid record B returns a
\* record equal to B in element, name, tags, aliases and blocks.
C6_RoundTrip ==
    ReadBack =>
        /\ out.status = "done"
        /\ [i \in DOMAIN out.yielded |-> out.yielded[i].basis] = <<held[1]>>

\* C6, amended: parsing the text written for a valid record B returns one
\* record equal to B in element, name, tags, aliases and in the n, the l pairs
\* and the number and length of the rows of every block; every coefficient
\* comes back with at most 12 fractional digits, and equal to B's when B's
\* has at most 12 fractional digits.
C6_RoundTripTo12Digits ==
    ReadBack =>
        /\ out.status = "done"
        /\ Len(out.yielded) = 1
        /\ LET B == held[1]
               P == out.yielded[1].basis
           IN  /\ P.element = B.element
               /\ P.name = B.name
               /\ P.tags = B.tags
               /\ P.aliases = B.aliases
               /\ Len(P.blocks) = Len(B.blocks)
               /\ \A b \in DOMAIN B.blocks :
                    /\ P.blocks[b].n = B.blocks[b].n
                    /\ P.blocks[b].l = B.blocks[b].l
                    /\ Len(P.blocks[b].coefficients) = Len(B.blocks[b].coefficients)
                    /\ \A r \in DOMAIN B.blocks[b].coefficients :
                        LET row == B.blocks[b].coefficients[r]
                            back == P.blocks[b].coefficients[r]
                        IN  /\ Len(back) = Len(row)
                            /\ \A c \in DOMAIN row :
                                /\ Len(back[c].frac) <= c_fmt.precision
                                /\ Len(row[c].frac) <= c_fmt.precision
                                    => back[c] = row[c]

\* a record of two blocks, with coefficients of more than 12 fractional digits
\* and of fewer, has been written and read back
C6_Witness ==
    /\ ReadBack
    /\ out.status = "done"
    /\ Len(held[1].blocks) >= 2
    /\ \E v \in Coefficients(held[1]) : Len(v.frac) > c_fmt.precision
    /\ \E v \in Coefficients(held[1]) : v.frac # <<>> /\ Len(v.frac) <= c_fmt.precision

\* C8 as stated: when write_cp2k_basisset fails on a record that violates a
\* shape invariant, nothing has been written to the handle.
C8_AllOrNothing ==
    (pc = "returned" /\ call.op = "write_cp2k_basisset" /\ out.exc # "")
        => file = <<>>

\* the first block header of the text that was read: its tokens, the number
\* m of shell-count tokens and k = lmax - lmin + 1
first_block_header ==
    LET tokens == split(file[3])
        ints == [i \in DOMAIN tokens |-> to_int(tokens[i])]
    IN  [integers |-> \A i \in DOMAIN ints : ints[i].exc = "",
         m |-> Len(tokens) - 4,
         k |-> ints[3].value - ints[2].value + 1]

\* C9 as stated: a block header whose number m of shell-count tokens differs
\* from k = lmax - lmin + 1 makes the parser fail, and every block that is
\* returned has exactly k (angular momentum, shell count) pairs.
C9_BlockHeaderArity ==
    (/\ pc = "returned"
     /\ call.op = "cp2k_basisset_file_iter"
     /\ Len(file) >= 3
     /\ first_block_header.integers
     /\ first_block_header.m >= 0)
        => /\ first_block_header.m # first_block_header.k => out.status = "raised"
           /\ \A i \in DOMAIN out.yielded :
                out.yielded[i].basis.blocks # <<>>
                    => Len(out.yielded[i].basis.blocks[1].l) = first_block_header.k

(***************************************************************************)
(* The entry splitter, line by line.                                       *)
(***************************************************************************)
MaxLines == 4

SplitLines ==
    {text_line(<<<<"H">>, <<"A">>>>),
     <<" ">> \o text_line(<<<<"O">>, <<"B", "-", "q", "1">>, <<"B">>>>),
     text_line(<<<<"0">>>>),
     <<" ", "\n">>,
     text_line(<<<<"#">>, <<"H">>, <<"A">>>>),
     text_line(<<<<"A", "b", "c", "d">>, <<"B">>>>)}

\* the last line of a file may lack its newline
SplitFiles ==
    LET whole == SeqsUpTo(SplitLines, MaxLines)
    IN  whole \cup {[f EXCEPT ![Len(f)] = SubSeq(@, 1, Len(@) - 1)] :
                        f \in whole \ {<<>>}}

SplitInit ==
    /\ file \in SplitFiles
    /\ gen = iter_start
    /\ db = Unused
    /\ db0 = Unused
    /\ pc = Unused
    /\ call = Unused
    /\ out = Unused
    /\ held = Unused
    /\ proc = Unused
    /\ inserts = Unused

\* for line in fhandle: ...
next_line ==
    /\ gen.status = "running"
    /\ gen.pos < Len(file)
    /\ gen' = iter_line(gen, file[gen.pos + 1])
    /\ UNCHANGED <<file, db, db0, pc, call, out, held, proc, inserts>>

\* if current_basis: yield ...
end_of_input ==
    /\ gen.status = "running"
    /\ gen.pos = Len(file)
    /\ gen' = iter_end(gen)
    /\ UNCHANGED <<file, db, db0, pc, call, out, held, proc, inserts>>

SplitNext == next_line \/ end_of_input

SpecSplit == SplitInit /\ [][SplitNext]_vars

(***************************************************************************)
(* Claims about the entry splitter.                                        *)
(***************************************************************************)
\* the lines read so far that are neither blank nor comments
kept ==
    SelectSeq(SubSeq(file, 1, gen.pos), LAMBDA line : ~EMPTY_LINE_MATCH(line))

\* the line groups handed to the block parser, and the one being accumulated
groups ==
    [i \in DOMAIN gen.yielded |-> gen.yielded[i].lines]
        \o (IF gen.current_basis # <<>> THEN <<gen.current_basis>> ELSE <<>>)

RECURSIVE Concat(_)
Concat(seqs) == IF seqs = <<>> THEN <<>> ELSE Head(seqs) \o Concat(Tail(seqs))

\* where in kept each group starts
group_starts == {1 + Len(Concat(SubSeq(groups, 1, i - 1))) : i \in DOMAIN groups}

\* C5: at every point of the iteration the groups, concatenated, are the
\* lines read so far that are neither blank nor comments, in order and
\* stripped of surrounding whitespace; a group starts at the first such line
\* and exactly at each later one that matches the header pattern; and once
\* the iteration has ended without the block parser rejecting a group, all
\* lines have been read and every group, the last included, was yielded.
C5_Splitter ==
    /\ Concat(groups) = [j \in DOMAIN kept |-> strip(kept[j])]
    /\ \A j \in DOMAIN kept : j \in group_starts <=> (j = 1 \/ BLOCK_MATCH(kept[j]))
    /\ gen.status = "done" =>
        /\ gen.pos = Len(file)
        /\ gen.current_basis = <<>>
        /\ Len(gen.yielded) = Cardinality(group_starts)

\* a file of two entries with nothing between them but the second one's
\* header line has been split into two entries, each starting at its header
C5_Witness ==
    /\ gen.status = "done"
    /\ Len(gen.yielded) = 2
    /\ Len(kept) = Len(file)
    /\ Len(gen.yielded[1].lines) = 2
    /\ BLOCK_MATCH(file[3])

====
